---- MODULE Spec2Model ----
(***************************************************************************)
(* Bernese German word clock (etoulas/word-clock).                         *)
(*                                                                         *)
(* The model covers src/word_grid.py: the letter grid, the word-span and   *)
(* hour-word tables, and the three functions get_words_for_time,           *)
(* get_minute_dots and get_lit_positions; of src/display.py the pixel      *)
(* geometry of DisplayRenderer; and of src/clock.py the polling loop of    *)
(* WordClock with its signal handler and cleanup.                          *)
(* Under Spec a behaviour is one call: its arguments, its outcome and what *)
(* it returned.  Under ClockSpec a behaviour is a run of the clock.        *)
(* Python's % and // are floor operations, as are TLC's % and \div, so     *)
(* negative arguments behave in the model as they do in the interpreter.   *)
(***************************************************************************)
EXTENDS Integers, Sequences, FiniteSets, TLC

VARIABLES
    pc,          \* "call" before the function has run, "done" after
    op,          \* the function called
    arg_hour,    \* its hour argument (0 when it has none)
    arg_minute,  \* its minute argument (0 when it has none)
    arg_words,   \* the word list handed to get_lit_positions
    outcome,     \* "ok" when the call returned, else the exception raised
    words,       \* the list returned by get_words_for_time
    dots,        \* the number returned by get_minute_dots
    positions,   \* the list returned by get_lit_positions
    lookups,     \* the keys the call looked up in HOUR_WORDS
    arg_row,     \* the row handed to get_char_pixel_bounds
    arg_col,     \* the column handed to get_char_pixel_bounds
    bounds,      \* the <<x_start, y_start, x_end, y_end>> it returned
    cpc,         \* where WordClock's main is ("idle": the clock is not run)
    has_matrix,  \* self.matrix and self.canvas are set (hardware mode)
    running,     \* self.running
    last_minute, \* self.last_minute
    clock,       \* the wall clock, <<hour, minute>>
    now,         \* the time sampled by this iteration, <<hour, minute>>
    iter,        \* the iterations of the loop started so far
    u_words,     \* update_display's words
    u_positions, \* update_display's positions, a set
    u_dots,      \* update_display's dots
    sink,        \* what the output last received from update_display
    matrix_ops,  \* the operations applied to self.matrix, in order
    error,       \* the exception that ended run, or "none"
    signals,     \* the shutdown signals delivered so far
    sig_iter,    \* the value of iter when the first signal arrived
    sig_pc       \* the value of cpc when the first signal arrived

\* the variables of a call to the renderer
render_vars == <<arg_row, arg_col, bounds>>

\* the variables of one call to word_grid or to the renderer
call_vars == <<pc, op, arg_hour, arg_minute, arg_words, outcome, words, dots,
               positions, lookups, render_vars>>

\* the variables of the running clock
clock_vars == <<cpc, has_matrix, running, last_minute, clock, now, iter,
                u_words, u_positions, u_dots, sink, matrix_ops, error,
                signals, sig_iter, sig_pc>>

vars == <<call_vars, clock_vars>>

(***************************************************************************)
(* Bounds of the model.                                                    *)
(***************************************************************************)
\* how far beyond 0..23 and 0..59 the arguments of a call may lie
Slack == 2
\* the longest arbitrary word list handed to get_lit_positions
MaxWords == 2
\* the most iterations of the polling loop a behaviour starts
MaxIter == 3
\* the most shutdown signals delivered in a behaviour
MaxSignals == 2

(***************************************************************************)
(* Static data: GRID, WORDS, HOUR_WORDS.                                   *)
(***************************************************************************)
\* GRID with the last character of the last row lost
GRID_short_row ==
    << <<"E","S","K","I","S","C","H","A","F","Ü","F">>,
       <<"V","I","E","R","T","U","B","F","Z","Ä","Ä">>,
       <<"Z","W","Ä","N","Z","G","S","I","V","O","R">>,
       <<"A","B","O","H","A","U","B","I","E","G","E">>,
       <<"E","I","S","Z","W","Ö","I","S","D","R","Ü">>,
       <<"V","I","E","R","I","F","Ü","F","I","Q","T">>,
       <<"S","Ä","C","H","S","I","S","I","B","N","I">>,
       <<"A","C","H","T","I","N","Ü","N","I","E","L">>,
       <<"Z","Ä","N","I","E","R","B","Ö","U","F","I">>,
       <<"Z","W","Ö","U","F","I","N","A","U","H">> >>

\* A Python string is a sequence of characters; each row is modelled as the
\* sequence of its one-character strings.
GRID ==
    << <<"E","S","K","I","S","C","H","A","F","Ü","F">>,
       <<"V","I","E","R","T","U","B","F","Z","Ä","Ä">>,
       <<"Z","W","Ä","N","Z","G","S","I","V","O","R">>,
       <<"A","B","O","H","A","U","B","I","E","G","E">>,
       <<"E","I","S","Z","W","Ö","I","S","D","R","Ü">>,
       <<"V","I","E","R","I","F","Ü","F","I","Q","T">>,
       <<"S","Ä","C","H","S","I","S","I","B","N","I">>,
       <<"A","C","H","T","I","N","Ü","N","I","E","L">>,
       <<"Z","Ä","N","I","E","R","B","Ö","U","F","I">>,
       <<"Z","W","Ö","U","F","I","N","A","U","H","R">> >>

\* WORDS with the span of one word a column off
WORDS_shifted ==
    ("ES"     :> <<0, 0, 1>>)  @@ ("ISCH"   :> <<0, 3, 6>>)  @@
    ("FÜF"    :> <<0, 8, 10>>) @@ ("ZÄÄ"    :> <<1, 8, 10>>) @@
    ("VIERT"  :> <<1, 0, 4>>)  @@ ("ZWÄNZG" :> <<2, 0, 5>>)  @@
    ("VOR"    :> <<2, 8, 10>>) @@ ("AB"     :> <<3, 0, 1>>)  @@
    ("HAUBI"  :> <<3, 3, 7>>)  @@
    ("EIS"    :> <<4, 0, 2>>)  @@ ("ZWÖI"   :> <<4, 3, 6>>)  @@
    ("DRÜ"    :> <<4, 8, 10>>) @@ ("VIERI"  :> <<5, 0, 4>>)  @@
    ("FÜFI"   :> <<5, 5, 8>>)  @@ ("SÄCHSI" :> <<6, 0, 5>>)  @@
    ("SIBNI"  :> <<6, 6, 10>>) @@ ("ACHTI"  :> <<7, 0, 4>>)  @@
    ("NÜNI"   :> <<7, 5, 8>>)  @@ ("ZÄNI"   :> <<8, 0, 3>>)  @@
    ("ÖUFI"   :> <<8, 6, 9>>)  @@ ("ZWÖUFI" :> <<9, 0, 5>>)  @@
    ("UHR"    :> <<9, 8, 10>>)

\* word key -> <<row, start_col, end_col>>, columns inclusive, 0-based
WORDS ==
    ("ES"     :> <<0, 0, 1>>)  @@ ("ISCH"   :> <<0, 3, 6>>)  @@
    ("FÜF"    :> <<0, 8, 10>>) @@ ("ZÄÄ"    :> <<1, 8, 10>>) @@
    ("VIERT"  :> <<1, 0, 4>>)  @@ ("ZWÄNZG" :> <<2, 0, 5>>)  @@
    ("VOR"    :> <<2, 8, 10>>) @@ ("AB"     :> <<3, 0, 1>>)  @@
    ("HAUBI"  :> <<3, 3, 7>>)  @@
    ("EIS"    :> <<4, 0, 2>>)  @@ ("ZWÖI"   :> <<4, 3, 6>>)  @@
    ("DRÜ"    :> <<4, 8, 10>>) @@ ("VIERI"  :> <<5, 0, 4>>)  @@
    ("FÜFI"   :> <<5, 5, 8>>)  @@ ("SÄCHSI" :> <<6, 0, 5>>)  @@
    ("SIBNI"  :> <<6, 6, 10>>) @@ ("ACHTI"  :> <<7, 0, 4>>)  @@
    ("NÜNI"   :> <<7, 5, 8>>)  @@ ("ZÄNI"   :> <<8, 0, 3>>)  @@
    ("ÖUFI"   :> <<8, 7, 10>>) @@ ("ZWÖUFI" :> <<9, 0, 5>>)  @@
    ("UHR"    :> <<9, 8, 10>>)

\* HOUR_WORDS with the umlaut of one word key dropped
HOUR_WORDS_typo ==
    (1 :> "EIS")     @@ (2 :> "ZWÖI")  @@ (3 :> "DRÜ")   @@ (4 :> "VIERI") @@
    (5 :> "FÜFI")    @@ (6 :> "SÄCHSI") @@ (7 :> "SIBNI") @@ (8 :> "ACHTI") @@
    (9 :> "NÜNI")    @@ (10 :> "ZÄNI") @@ (11 :> "ÖUFI")  @@ (12 :> "ZWOUFI")

\* HOUR_WORDS with the entry of hour 12 left out
HOUR_WORDS_no_twelve ==
    (1 :> "EIS")     @@ (2 :> "ZWÖI")  @@ (3 :> "DRÜ")   @@ (4 :> "VIERI") @@
    (5 :> "FÜFI")    @@ (6 :> "SÄCHSI") @@ (7 :> "SIBNI") @@ (8 :> "ACHTI") @@
    (9 :> "NÜNI")    @@ (10 :> "ZÄNI") @@ (11 :> "ÖUFI")

\* hour number -> word key
HOUR_WORDS ==
    (1 :> "EIS")     @@ (2 :> "ZWÖI")  @@ (3 :> "DRÜ")   @@ (4 :> "VIERI") @@
    (5 :> "FÜFI")    @@ (6 :> "SÄCHSI") @@ (7 :> "SIBNI") @@ (8 :> "ACHTI") @@
    (9 :> "NÜNI")    @@ (10 :> "ZÄNI") @@ (11 :> "ÖUFI")  @@ (12 :> "ZWÖUFI")

\* row[start:stop] of a row of characters, as a string; like Python's slice
\* it stops at the end of the row
RECURSIVE slice(_, _, _)
slice(row, start, stop) ==
    IF start >= stop \/ start >= Len(row) THEN ""
    ELSE row[start + 1] \o slice(row, start + 1, stop)

\* extracted = GRID[row][start:end + 1] for the entry of a word
extracted(word) ==
    slice(GRID[WORDS[word][1] + 1], WORDS[word][2], WORDS[word][3] + 1)

(***************************************************************************)
(* get_words_for_time.                                                     *)
(***************************************************************************)
\* hour_12 without the replacement of 0 by 12
hour_12_no_twelve(hour) == hour % 12

\* hour_12 = hour % 12; if hour_12 == 0: hour_12 = 12
hour_12(hour) ==
    LET h == hour % 12 IN IF h = 0 THEN 12 ELSE h

\* interval = minute // 5
interval(minute) == minute \div 5

\* display_hour switching to the next hour at :30 instead of :25
display_hour_from_half(hour, minute) ==
    IF interval(minute) >= 6
    THEN LET d == (hour_12(hour) % 12) + 1 IN IF d = 0 THEN 12 ELSE d
    ELSE hour_12(hour)

\* display_hour with the next hour taken as hour_12 + 1, without the wrap
display_hour_no_wrap(hour, minute) ==
    IF interval(minute) >= 5
    THEN hour_12(hour) + 1
    ELSE hour_12(hour)

\* the hour to display: the next hour from :25 on, else the current one
display_hour(hour, minute) ==
    IF interval(minute) >= 5
    THEN LET d == (hour_12(hour) % 12) + 1 IN IF d = 0 THEN 12 ELSE d
    ELSE hour_12(hour)

\* the key the branch taken for this interval looks up in HOUR_WORDS
\* (no branch of the chain is taken outside 0..11, and nothing is looked up)
hour_keys(hour, minute) ==
    LET i == interval(minute) IN
    IF i \in 0..4 THEN {hour_12(hour)}
    ELSE IF i \in 5..11 THEN {display_hour(hour, minute)}
    ELSE {}

\* time_words with the connector of the 35-39 branch taken from its neighbour
time_words_vor_half(hour, minute) ==
    LET i  == interval(minute)
        hw == HOUR_WORDS[hour_12(hour)]
        dw == HOUR_WORDS[display_hour(hour, minute)]
    IN  CASE i = 0  -> <<hw, "UHR">>
          [] i = 1  -> <<"FÜF", "AB", hw>>
          [] i = 2  -> <<"ZÄÄ", "AB", hw>>
          [] i = 3  -> <<"VIERT", "AB", hw>>
          [] i = 4  -> <<"ZWÄNZG", "AB", hw>>
          [] i = 5  -> <<"FÜF", "VOR", "HAUBI", dw>>
          [] i = 6  -> <<"HAUBI", dw>>
          [] i = 7  -> <<"FÜF", "VOR", "HAUBI", dw>>
          [] i = 8  -> <<"ZWÄNZG", "VOR", dw>>
          [] i = 9  -> <<"VIERT", "VOR", dw>>
          [] i = 10 -> <<"ZÄÄ", "VOR", dw>>
          [] i = 11 -> <<"FÜF", "VOR", dw>>
          [] OTHER  -> << >>

\* the words the if/elif chain appends for this interval
time_words(hour, minute) ==
    LET i  == interval(minute)
        hw == HOUR_WORDS[hour_12(hour)]
        dw == HOUR_WORDS[display_hour(hour, minute)]
    IN  CASE i = 0  -> <<hw, "UHR">>
          [] i = 1  -> <<"FÜF", "AB", hw>>
          [] i = 2  -> <<"ZÄÄ", "AB", hw>>
          [] i = 3  -> <<"VIERT", "AB", hw>>
          [] i = 4  -> <<"ZWÄNZG", "AB", hw>>
          [] i = 5  -> <<"FÜF", "VOR", "HAUBI", dw>>
          [] i = 6  -> <<"HAUBI", dw>>
          [] i = 7  -> <<"FÜF", "AB", "HAUBI", dw>>
          [] i = 8  -> <<"ZWÄNZG", "VOR", dw>>
          [] i = 9  -> <<"VIERT", "VOR", dw>>
          [] i = 10 -> <<"ZÄÄ", "VOR", dw>>
          [] i = 11 -> <<"FÜF", "VOR", dw>>
          [] OTHER  -> << >>

\* get_words_for_time starting from ISCH alone
get_words_for_time_no_es(hour, minute) ==
    LET keys == hour_keys(hour, minute) IN
    IF keys \subseteq DOMAIN HOUR_WORDS
    THEN [outcome |-> "ok",
          words   |-> <<"ISCH">> \o time_words(hour, minute),
          lookups |-> keys]
    ELSE [outcome |-> "KeyError", words |-> << >>, lookups |-> keys]

\* The call as a whole: a lookup of a key HOUR_WORDS lacks raises KeyError
\* and nothing is returned; otherwise the list starts with ES, ISCH.
get_words_for_time(hour, minute) ==
    LET keys == hour_keys(hour, minute) IN
    IF keys \subseteq DOMAIN HOUR_WORDS
    THEN [outcome |-> "ok",
          words   |-> <<"ES", "ISCH">> \o time_words(hour, minute),
          lookups |-> keys]
    ELSE [outcome |-> "KeyError", words |-> << >>, lookups |-> keys]

(***************************************************************************)
(* get_minute_dots.                                                        *)
(***************************************************************************)
\* get_minute_dots with // in place of %
get_minute_dots_div(minute) == minute \div 5

get_minute_dots(minute) == minute % 5

(***************************************************************************)
(* get_lit_positions.                                                      *)
(***************************************************************************)
\* word_positions over range(start, end), which leaves the last column out
RECURSIVE word_positions_exclusive(_, _, _)
word_positions_exclusive(row, start, end) ==
    IF start >= end THEN << >>
    ELSE <<  <<row, start>>  >> \o word_positions_exclusive(row, start + 1, end)

\* range(start, end + 1) of one word, as <<row, col>> pairs in column order
RECURSIVE word_positions(_, _, _)
word_positions(row, start, end) ==
    IF start > end THEN << >>
    ELSE <<  <<row, start>>  >> \o word_positions(row, start + 1, end)

\* a word that is not a key of WORDS contributes nothing
RECURSIVE get_lit_positions(_)
get_lit_positions(ws) ==
    IF ws = << >> THEN << >>
    ELSE LET word == Head(ws) IN
         (IF word \in DOMAIN WORDS
          THEN word_positions(WORDS[word][1], WORDS[word][2], WORDS[word][3])
          ELSE << >>)
         \o get_lit_positions(Tail(ws))

(***************************************************************************)
(* DisplayConfig and DisplayRenderer (src/display.py).                     *)
(***************************************************************************)
panel_width == 64
panel_height == 64
grid_cols == 11
grid_rows == 10
char_width == 5
char_height == 5
char_spacing_x == 1
char_spacing_y == 1

\* _calculate_offsets: the offsets that centre the grid on the panel
grid_pixel_width == grid_cols * char_width + (grid_cols - 1) * char_spacing_x
grid_pixel_height == grid_rows * char_height + (grid_rows - 1) * char_spacing_y
offset_x == (panel_width - grid_pixel_width) \div 2
offset_y == (panel_height - grid_pixel_height) \div 2

\* (x_start, y_start, x_end, y_end), inclusive
get_char_pixel_bounds(row, col) ==
    LET x_start == offset_x + col * (char_width + char_spacing_x)
        y_start == offset_y + row * (char_height + char_spacing_y)
    IN  <<x_start, y_start, x_start + char_width - 1, y_start + char_height - 1>>

(***************************************************************************)
(* The calls a client can make.                                            *)
(***************************************************************************)
Hours   == (0 - Slack)..(23 + Slack)
Minutes == (0 - Slack)..(59 + Slack)

\* a key that WORDS does not have
UnknownWord == "NACHT"

RECURSIVE ListsUpTo(_, _)
ListsUpTo(S, n) ==
    IF n = 0 THEN { << >> }
    ELSE LET shorter == ListsUpTo(S, n - 1) IN
         shorter \cup { Append(l, w) : l \in {s \in shorter : Len(s) = n - 1},
                                       w \in S }

\* word lists handed to get_lit_positions: what get_words_for_time returns
\* for a valid time, and short arbitrary lists that may repeat a word or
\* name a word WORDS lacks
WordLists ==
    { get_words_for_time(h, m).words : h \in 0..23, m \in 0..59 }
    \cup ListsUpTo(DOMAIN WORDS \cup {UnknownWord}, MaxWords)

\* what the output has received before the first update
NothingShown ==
    [shown |-> FALSE, hour |-> 0, minute |-> 0, words |-> << >>, cells |-> {},
     dots |-> 0]

\* the clock is not constructed
ClockIdle ==
    /\ cpc = "idle"
    /\ has_matrix = FALSE
    /\ running = FALSE
    /\ last_minute = -1
    /\ clock = <<0, 0>>
    /\ now = <<0, 0>>
    /\ iter = 0
    /\ u_words = << >>
    /\ u_positions = {}
    /\ u_dots = 0
    /\ sink = NothingShown
    /\ matrix_ops = << >>
    /\ error = "none"
    /\ signals = 0
    /\ sig_iter = 0
    /\ sig_pc = "none"

\* A behaviour is one call: the initial state holds the call about to be
\* made and its arguments, the action of the called function carries it out.
Init ==
    /\ pc = "call"
    /\ \/ /\ op = "get_words_for_time"
          /\ arg_hour \in Hours
          /\ arg_minute \in Minutes
          /\ arg_words = << >>
       \/ /\ op = "get_minute_dots"
          /\ arg_hour = 0
          /\ arg_minute \in Minutes
          /\ arg_words = << >>
       \/ /\ op = "get_lit_positions"
          /\ arg_hour = 0
          /\ arg_minute = 0
          /\ arg_words \in WordLists
       \/ /\ op = "get_char_pixel_bounds"
          /\ arg_hour = 0
          /\ arg_minute = 0
          /\ arg_words = << >>
    /\ IF op = "get_char_pixel_bounds"
       THEN arg_row \in 0..(grid_rows - 1) /\ arg_col \in 0..(grid_cols - 1)
       ELSE arg_row = 0 /\ arg_col = 0
    /\ bounds = <<0, 0, 0, 0>>
    /\ outcome = "ok"
    /\ words = << >>
    /\ dots = 0
    /\ positions = << >>
    /\ lookups = {}
    /\ ClockIdle

CallGetWordsForTime ==
    /\ pc = "call"
    /\ op = "get_words_for_time"
    /\ LET r == get_words_for_time(arg_hour, arg_minute) IN
        /\ outcome' = r.outcome
        /\ words' = r.words
        /\ lookups' = r.lookups
    /\ pc' = "done"
    /\ UNCHANGED <<op, arg_hour, arg_minute, arg_words, dots, positions>>
    /\ UNCHANGED render_vars
    /\ UNCHANGED clock_vars

CallGetMinuteDots ==
    /\ pc = "call"
    /\ op = "get_minute_dots"
    /\ dots' = get_minute_dots(arg_minute)
    /\ outcome' = "ok"
    /\ pc' = "done"
    /\ UNCHANGED <<op, arg_hour, arg_minute, arg_words, words, positions,
                   lookups>>
    /\ UNCHANGED render_vars
    /\ UNCHANGED clock_vars

CallGetLitPositions ==
    /\ pc = "call"
    /\ op = "get_lit_positions"
    /\ positions' = get_lit_positions(arg_words)
    /\ outcome' = "ok"
    /\ pc' = "done"
    /\ UNCHANGED <<op, arg_hour, arg_minute, arg_words, words, dots, lookups>>
    /\ UNCHANGED render_vars
    /\ UNCHANGED clock_vars

CallGetCharPixelBounds ==
    /\ pc = "call"
    /\ op = "get_char_pixel_bounds"
    /\ bounds' = get_char_pixel_bounds(arg_row, arg_col)
    /\ outcome' = "ok"
    /\ pc' = "done"
    /\ UNCHANGED <<op, arg_hour, arg_minute, arg_words, words, dots, positions,
                   lookups, arg_row, arg_col>>
    /\ UNCHANGED clock_vars

Next ==
    \/ CallGetWordsForTime
    \/ CallGetMinuteDots
    \/ CallGetLitPositions
    \/ CallGetCharPixelBounds

Spec == Init /\ [][Next]_vars

TypeOK ==
    /\ pc \in {"call", "done"}
    /\ op \in {"get_words_for_time", "get_minute_dots", "get_lit_positions",
               "get_char_pixel_bounds"}
    /\ arg_hour \in Hours
    /\ arg_minute \in Minutes
    /\ outcome \in {"ok", "KeyError"}
    /\ dots \in 0..4

(***************************************************************************)
(* WordClock (src/clock.py): the polling loop of run, update_display, the  *)
(* signal handler and cleanup.  The handlers are installed before the loop *)
(* starts; Python runs a handler between two steps of the main thread.     *)
(***************************************************************************)
\* the times at which the clock may be started
StartTimes == { <<7, 24>>, <<12, 59>>, <<23, 58>> }

\* the wall clock a minute later
NextMinute(t) ==
    IF t[2] < 59 THEN <<t[1], t[2] + 1>>
    ELSE <<(t[1] + 1) % 24, 0>>

\* set(...) of a list of positions
position_set(ps) == { ps[i] : i \in 1..Len(ps) }

\* render_to_canvas(self, canvas, lit_positions, num_dots): the arguments it
\* takes besides self
render_to_canvas_params == 3

\* self.renderer.render_to_canvas(self.canvas, GRID, positions, dots): the
\* arguments update_display passes
render_to_canvas_args == 4

\* a call with more positional arguments than parameters raises TypeError
render_to_canvas_outcome ==
    IF render_to_canvas_args = render_to_canvas_params THEN "ok"
    ELSE "TypeError"

\* WordClock(args) constructed, run() has installed the handlers
ClockInit ==
    /\ pc = "idle"
    /\ op = "none"
    /\ arg_hour = 0
    /\ arg_minute = 0
    /\ arg_words = << >>
    /\ outcome = "ok"
    /\ words = << >>
    /\ dots = 0
    /\ positions = << >>
    /\ lookups = {}
    /\ arg_row = 0
    /\ arg_col = 0
    /\ bounds = <<0, 0, 0, 0>>
    /\ cpc = "while"
    /\ has_matrix \in BOOLEAN
    /\ running = TRUE
    /\ last_minute = -1
    /\ clock \in StartTimes
    /\ now = <<0, 0>>
    /\ iter = 0
    /\ u_words = << >>
    /\ u_positions = {}
    /\ u_dots = 0
    /\ sink = NothingShown
    /\ matrix_ops = IF has_matrix THEN <<"CreateFrameCanvas">> ELSE << >>
    /\ error = "none"
    /\ signals = 0
    /\ sig_iter = 0
    /\ sig_pc = "none"

\* while self.running: the loop is entered
WhileEnter ==
    /\ cpc = "while"
    /\ running
    /\ iter < MaxIter
    /\ iter' = iter + 1
    /\ cpc' = "sample"
    /\ UNCHANGED <<has_matrix, running, last_minute, clock, now, u_words,
                   u_positions, u_dots, sink, matrix_ops, error, signals,
                   sig_iter, sig_pc>>
    /\ UNCHANGED call_vars

\* while self.running: the loop is left, run returns, main goes to finally
WhileLeave ==
    /\ cpc = "while"
    /\ ~running
    /\ cpc' = "cleanup"
    /\ UNCHANGED <<has_matrix, running, last_minute, clock, now, iter, u_words,
                   u_positions, u_dots, sink, matrix_ops, error, signals,
                   sig_iter, sig_pc>>
    /\ UNCHANGED call_vars

\* now = datetime.now() with now.minute != self.last_minute
SampleChanged ==
    /\ cpc = "sample"
    /\ clock[2] # last_minute
    /\ now' = clock
    /\ cpc' = "compute"
    /\ UNCHANGED <<has_matrix, running, last_minute, clock, iter, u_words,
                   u_positions, u_dots, sink, matrix_ops, error, signals,
                   sig_iter, sig_pc>>
    /\ UNCHANGED call_vars

\* now = datetime.now() with now.minute == self.last_minute
SampleSame ==
    /\ cpc = "sample"
    /\ clock[2] = last_minute
    /\ now' = clock
    /\ cpc' = "sleep"
    /\ UNCHANGED <<has_matrix, running, last_minute, clock, iter, u_words,
                   u_positions, u_dots, sink, matrix_ops, error, signals,
                   sig_iter, sig_pc>>
    /\ UNCHANGED call_vars

\* update_display: words, positions and dots of the sampled time
UpdateCompute ==
    /\ cpc = "compute"
    /\ LET r == get_words_for_time(now[1], now[2]) IN
       IF r.outcome = "ok"
       THEN /\ u_words' = r.words
            /\ u_positions' = position_set(get_lit_positions(r.words))
            /\ u_dots' = get_minute_dots(now[2])
            /\ cpc' = "render"
            /\ error' = error
       ELSE /\ error' = r.outcome
            /\ cpc' = "cleanup"
            /\ UNCHANGED <<u_words, u_positions, u_dots>>
    /\ UNCHANGED <<has_matrix, running, last_minute, clock, now, iter, sink,
                   matrix_ops, signals, sig_iter, sig_pc>>
    /\ UNCHANGED call_vars

\* update_display with a matrix: render_to_canvas, then SwapOnVSync; the
\* exception of the call leaves update_display and run, main goes to finally
UpdateRenderMatrix ==
    /\ cpc = "render"
    /\ has_matrix
    /\ IF render_to_canvas_outcome = "ok"
       THEN /\ sink' = [shown |-> TRUE, hour |-> now[1], minute |-> now[2],
                        words |-> u_words, cells |-> u_positions,
                        dots |-> u_dots]
            /\ matrix_ops' = Append(matrix_ops, "SwapOnVSync")
            /\ cpc' = "store"
            /\ error' = error
       ELSE /\ error' = render_to_canvas_outcome
            /\ cpc' = "cleanup"
            /\ UNCHANGED <<sink, matrix_ops>>
    /\ UNCHANGED <<has_matrix, running, last_minute, clock, now, iter, u_words,
                   u_positions, u_dots, signals, sig_iter, sig_pc>>
    /\ UNCHANGED call_vars

\* update_display without a matrix: _print_simulation
UpdatePrintSimulation ==
    /\ cpc = "render"
    /\ ~has_matrix
    /\ sink' = [shown |-> TRUE, hour |-> now[1], minute |-> now[2],
                words |-> u_words, cells |-> u_positions, dots |-> u_dots]
    /\ cpc' = "store"
    /\ UNCHANGED <<has_matrix, running, last_minute, clock, now, iter, u_words,
                   u_positions, u_dots, matrix_ops, error, signals, sig_iter,
                   sig_pc>>
    /\ UNCHANGED call_vars

\* self.last_minute = now.minute
StoreLastMinute ==
    /\ cpc = "store"
    /\ last_minute' = now[2]
    /\ cpc' = "sleep"
    /\ UNCHANGED <<has_matrix, running, clock, now, iter, u_words,
                   u_positions, u_dots, sink, matrix_ops, error, signals,
                   sig_iter, sig_pc>>
    /\ UNCHANGED call_vars

\* time.sleep(...) to the next second; the minute may have changed by then
Sleep ==
    /\ cpc = "sleep"
    /\ clock' \in {clock, NextMinute(clock)}
    /\ cpc' = "while"
    /\ UNCHANGED <<has_matrix, running, last_minute, now, iter, u_words,
                   u_positions, u_dots, sink, matrix_ops, error, signals,
                   sig_iter, sig_pc>>
    /\ UNCHANGED call_vars

\* _signal_handler with self.running left as it is
SignalHandler_keeps_running ==
    /\ cpc \notin {"idle", "exit"}
    /\ signals < MaxSignals
    /\ signals' = signals + 1
    /\ sig_iter' = IF signals = 0 THEN iter ELSE sig_iter
    /\ sig_pc' = IF signals = 0 THEN cpc ELSE sig_pc
    /\ matrix_ops' = IF has_matrix THEN Append(matrix_ops, "Clear")
                                   ELSE matrix_ops
    /\ UNCHANGED <<cpc, has_matrix, running, last_minute, clock, now, iter,
                   u_words, u_positions, u_dots, sink, error>>
    /\ UNCHANGED call_vars

\* _signal_handler, run on SIGINT or SIGTERM wherever the main thread is
SignalHandler ==
    /\ cpc \notin {"idle", "exit"}
    /\ signals < MaxSignals
    /\ signals' = signals + 1
    /\ sig_iter' = IF signals = 0 THEN iter ELSE sig_iter
    /\ sig_pc' = IF signals = 0 THEN cpc ELSE sig_pc
    /\ running' = FALSE
    /\ matrix_ops' = IF has_matrix THEN Append(matrix_ops, "Clear")
                                   ELSE matrix_ops
    /\ UNCHANGED <<cpc, has_matrix, last_minute, clock, now, iter, u_words,
                   u_positions, u_dots, sink, error>>
    /\ UNCHANGED call_vars

\* finally: clock.cleanup(), then the program exits
Cleanup ==
    /\ cpc = "cleanup"
    /\ matrix_ops' = IF has_matrix THEN Append(matrix_ops, "Clear")
                                   ELSE matrix_ops
    /\ cpc' = "exit"
    /\ UNCHANGED <<has_matrix, running, last_minute, clock, now, iter, u_words,
                   u_positions, u_dots, sink, error, signals, sig_iter, sig_pc>>
    /\ UNCHANGED call_vars

\* the steps of the main thread
MainStep ==
    \/ WhileEnter
    \/ WhileLeave
    \/ SampleChanged
    \/ SampleSame
    \/ UpdateCompute
    \/ UpdateRenderMatrix
    \/ UpdatePrintSimulation
    \/ StoreLastMinute
    \/ Sleep
    \/ Cleanup

ClockNext == MainStep \/ SignalHandler

ClockSpec == ClockInit /\ [][ClockNext]_vars

\* the interpreter keeps running the main thread
FairClockSpec == ClockSpec /\ WF_vars(MainStep)

(***************************************************************************)
(* What the specification says of a valid time, tabulated independently of *)
(* the code above.                                                         *)
(***************************************************************************)
ValidTime == arg_hour \in 0..23 /\ arg_minute \in 0..59

\* get_words_for_time has run on a valid time
Translated == pc = "done" /\ op = "get_words_for_time" /\ ValidTime

\* hour-of-12 -> hour word
SpecHourWord ==
    <<"EIS", "ZWÖI", "DRÜ", "VIERI", "FÜFI", "SÄCHSI", "SIBNI", "ACHTI",
      "NÜNI", "ZÄNI", "ÖUFI", "ZWÖUFI">>

\* hour mod 12, with 0 replaced by 12
SpecCurrentHour(h) == IF h \in {0, 12} THEN 12 ELSE IF h > 12 THEN h - 12 ELSE h

\* the successor of 12 is 1
SpecNextHour(h) == IF SpecCurrentHour(h) = 12 THEN 1 ELSE SpecCurrentHour(h) + 1

\* the interval table, indexed by interval + 1, H the hour word
SpecTable(H) ==
    << <<H, "UHR">>,
       <<"FÜF", "AB", H>>,
       <<"ZÄÄ", "AB", H>>,
       <<"VIERT", "AB", H>>,
       <<"ZWÄNZG", "AB", H>>,
       <<"FÜF", "VOR", "HAUBI", H>>,
       <<"HAUBI", H>>,
       <<"FÜF", "AB", "HAUBI", H>>,
       <<"ZWÄNZG", "VOR", H>>,
       <<"VIERT", "VOR", H>>,
       <<"ZÄÄ", "VOR", H>>,
       <<"FÜF", "VOR", H>> >>

\* the interval of a valid minute, found by search rather than division
SpecInterval(m) == CHOOSE i \in 0..11 : 5 * i <= m /\ m < 5 * i + 5

\* the hour word of a returned list: the last word, or the one before UHR
HourWordOf(ws) ==
    IF Len(ws) < 3 THEN "none"
    ELSE IF ws[Len(ws)] = "UHR" THEN ws[Len(ws) - 1] ELSE ws[Len(ws)]

(***************************************************************************)
(* C1: for every valid time, get_words_for_time returns ES, ISCH followed  *)
(* by the words of the interval table for minute div 5, in table order,    *)
(* with the hour word of the referenced hour; (7,47) gives                 *)
(* ES ISCH VIERT VOR ACHTI, and the number of words varies with the        *)
(* interval.                                                               *)
(***************************************************************************)
C1_IntervalTable ==
    Translated =>
        /\ outcome = "ok"
        /\ LET ref == IF arg_minute <= 24 THEN SpecCurrentHour(arg_hour)
                                          ELSE SpecNextHour(arg_hour)
           IN  words = <<"ES", "ISCH">>
                       \o SpecTable(SpecHourWord[ref])[SpecInterval(arg_minute) + 1]
        /\ (arg_hour = 7 /\ arg_minute = 47)
               => words = <<"ES", "ISCH", "VIERT", "VOR", "ACHTI">>
        /\ Len(words) = (CASE SpecInterval(arg_minute) \in {0, 6}    -> 4
                           [] SpecInterval(arg_minute) \in {5, 7}    -> 6
                           [] OTHER                                  -> 5)

C1_Witness ==
    /\ Translated
    /\ arg_hour = 7
    /\ arg_minute = 47
    /\ words = <<"ES", "ISCH", "VIERT", "VOR", "ACHTI">>

(***************************************************************************)
(* C2: for every valid time the returned list has ES as its first and      *)
(* ISCH as its second element.                                             *)
(***************************************************************************)
C2_EsIschFirst ==
    Translated =>
        /\ outcome = "ok"
        /\ Len(words) >= 2
        /\ words[1] = "ES"
        /\ words[2] = "ISCH"

C2_Witness ==
    /\ Translated
    /\ arg_hour = 19
    /\ arg_minute = 30
    /\ Len(words) = 4
    /\ words[1] = "ES"
    /\ words[2] = "ISCH"

(***************************************************************************)
(* C3: the hour word is that of the current hour-of-12 for minutes 0..24   *)
(* and that of the next hour-of-12 for minutes 25..59; the step from       *)
(* minute 24 to minute 25 changes it (7:24 SIBNI, 7:25 ACHTI).             *)
(***************************************************************************)
C3_HourReference ==
    Translated =>
        /\ outcome = "ok"
        /\ arg_minute \in 0..24
               => HourWordOf(words) = SpecHourWord[SpecCurrentHour(arg_hour)]
        /\ arg_minute \in 25..59
               => HourWordOf(words) = SpecHourWord[SpecNextHour(arg_hour)]
        /\ arg_minute = 24
               => LET after == get_words_for_time(arg_hour, 25) IN
                  /\ after.outcome = "ok"
                  /\ HourWordOf(after.words) # HourWordOf(words)
        /\ (arg_hour = 7 /\ arg_minute = 24) => HourWordOf(words) = "SIBNI"
        /\ (arg_hour = 7 /\ arg_minute = 25) => HourWordOf(words) = "ACHTI"

C3_Witness ==
    /\ Translated
    /\ arg_hour = 7
    /\ arg_minute = 25
    /\ HourWordOf(words) = "ACHTI"
    /\ HourWordOf(get_words_for_time(7, 24).words) = "SIBNI"

(***************************************************************************)
(* C4: the 24-hour input becomes hour mod 12 with 0 replaced by 12: for    *)
(* minutes 0..24, hours h and h+12 yield the same hour word, hours 0 and   *)
(* 12 yield ZWÖUFI, 13 yields EIS, 14 yields ZWÖI and 23 yields ÖUFI.      *)
(***************************************************************************)
C4_HourOf12 ==
    (Translated /\ arg_minute \in 0..24) =>
        /\ outcome = "ok"
        /\ lookups = {SpecCurrentHour(arg_hour)}
        /\ LET other == get_words_for_time((arg_hour + 12) % 24, arg_minute) IN
           /\ other.outcome = "ok"
           /\ HourWordOf(other.words) = HourWordOf(words)
        /\ arg_hour \in {0, 12} => HourWordOf(words) = "ZWÖUFI"
        /\ arg_hour = 13 => HourWordOf(words) = "EIS"
        /\ arg_hour = 14 => HourWordOf(words) = "ZWÖI"
        /\ arg_hour = 23 => HourWordOf(words) = "ÖUFI"

C4_Witness ==
    /\ Translated
    /\ arg_hour = 0
    /\ arg_minute = 0
    /\ words = <<"ES", "ISCH", "ZWÖUFI", "UHR">>
    /\ get_words_for_time(12, 0).words = words

(***************************************************************************)
(* C5: when the next hour is referenced (minutes 25..59) the referenced    *)
(* hour is in 1..12 and the successor of 12 is 1: for hours 12 and 0 the   *)
(* hour word is EIS, for hours 11 and 23 it is ZWÖUFI; neither 13 nor 0 is *)
(* looked up.                                                              *)
(***************************************************************************)
C5_NextHourWraps ==
    (Translated /\ arg_minute \in 25..59) =>
        /\ outcome = "ok"
        /\ lookups # {}
        /\ lookups \subseteq 1..12
        /\ 13 \notin lookups
        /\ 0 \notin lookups
        /\ arg_hour \in {0, 12}
               => (lookups = {1} /\ HourWordOf(words) = "EIS")
        /\ arg_hour \in {11, 23}
               => (lookups = {12} /\ HourWordOf(words) = "ZWÖUFI")

C5_Witness ==
    /\ Translated
    /\ arg_hour = 12
    /\ arg_minute = 59
    /\ lookups = {1}
    /\ words = <<"ES", "ISCH", "FÜF", "VOR", "EIS">>

(***************************************************************************)
(* C6: for every minute in 0..59, get_minute_dots(minute) is minute mod 5: *)
(* it lies in 0..4, differs from the minute by a multiple of 5, every      *)
(* value of 0..4 is attained, and it is 0 exactly at the multiples of 5.   *)
(***************************************************************************)
C6_MinuteDots ==
    (pc = "done" /\ op = "get_minute_dots" /\ arg_minute \in 0..59) =>
        /\ outcome = "ok"
        /\ dots \in 0..4
        /\ \E q \in 0..11 : arg_minute = 5 * q + dots
        /\ dots = 0 <=> arg_minute \in {5 * q : q \in 0..11}
        /\ \A d \in 0..4 : \E m \in 0..59 : get_minute_dots(m) = d

C6_Witness ==
    /\ pc = "done"
    /\ op = "get_minute_dots"
    /\ arg_minute = 47
    /\ dots = 2

(***************************************************************************)
(* C7: a call with hour < 0, hour >= 24, minute < 0 or minute >= 60 fails  *)
(* with InvalidTimeError and returns no word sequence or dot count.        *)
(***************************************************************************)
C7_RejectsInvalidTime ==
    /\ (pc = "done" /\ op = "get_words_for_time" /\ ~ValidTime)
           => (outcome = "InvalidTimeError" /\ words = << >>)
    /\ (pc = "done" /\ op = "get_minute_dots" /\ arg_minute \notin 0..59)
           => outcome = "InvalidTimeError"

(***************************************************************************)
(* C8: converting a word list that contains a key WORDS lacks fails with   *)
(* UnknownWordError instead of leaving that word's cells out.              *)
(***************************************************************************)
C8_UnknownWordFails ==
    (/\ pc = "done"
     /\ op = "get_lit_positions"
     /\ \E i \in 1..Len(arg_words) : arg_words[i] \notin DOMAIN WORDS)
        => outcome = "UnknownWordError"

(***************************************************************************)
(* C9: get_words_for_time is total on valid times: it returns without      *)
(* error, every key it looks up in HOUR_WORDS is in 1..12, and every word  *)
(* it returns is a key of WORDS.                                           *)
(***************************************************************************)
C9_TotalOnValidTimes ==
    Translated =>
        /\ outcome = "ok"
        /\ lookups # {}
        /\ lookups \subseteq 1..12
        /\ Len(words) >= 4
        /\ \A i \in 1..Len(words) : words[i] \in DOMAIN WORDS

C9_Witness ==
    /\ Translated
    /\ arg_hour = 23
    /\ arg_minute = 59
    /\ outcome = "ok"
    /\ lookups = {12}
    /\ \A i \in 1..Len(words) : words[i] \in DOMAIN WORDS

(***************************************************************************)
(* C10: every entry word -> (row, start_col, end_col) of WORDS has         *)
(* 0 <= row < 10 and 0 <= start_col <= end_col < 11, and the characters of *)
(* GRID[row] from start_col to end_col spell the word key, so the span is  *)
(* as long as the key; hence the cells returned for a single word of WORDS *)
(* show that word.                                                         *)
(***************************************************************************)
\* the characters of GRID at a list of positions, in list order
RECURSIVE Spelled(_)
Spelled(ps) ==
    IF ps = << >> THEN ""
    ELSE GRID[Head(ps)[1] + 1][Head(ps)[2] + 1] \o Spelled(Tail(ps))

C10_SpansSpellWords ==
    /\ \A word \in DOMAIN WORDS :
        LET row   == WORDS[word][1]
            start == WORDS[word][2]
            end   == WORDS[word][3]
        IN  /\ 0 <= row /\ row < 10
            /\ 0 <= start /\ start <= end /\ end < 11
            /\ extracted(word) = word
            /\ end - start + 1 = Len(word)
    /\ (/\ pc = "done"
        /\ op = "get_lit_positions"
        /\ Len(arg_words) = 1
        /\ arg_words[1] \in DOMAIN WORDS)
           => Spelled(positions) = arg_words[1]

C10_Witness ==
    /\ pc = "done"
    /\ op = "get_lit_positions"
    /\ arg_words = <<"ZWÖUFI">>
    /\ Len(positions) = 6
    /\ Spelled(positions) = "ZWÖUFI"

(***************************************************************************)
(* C11: GRID has exactly 10 rows and every row has exactly 11 characters;  *)
(* so every position get_lit_positions returns names a character of GRID.  *)
(***************************************************************************)
C11_GridDimensions ==
    /\ Len(GRID) = 10
    /\ \A r \in 1..Len(GRID) : Len(GRID[r]) = 11
    /\ (pc = "done" /\ op = "get_lit_positions")
           => \A i \in 1..Len(positions) :
                  /\ positions[i][1] + 1 \in 1..Len(GRID)
                  /\ positions[i][2] + 1 \in 1..Len(GRID[positions[i][1] + 1])

C11_Witness ==
    /\ pc = "done"
    /\ op = "get_lit_positions"
    /\ arg_words = <<"UHR">>
    /\ positions = << <<9, 8>>, <<9, 9>>, <<9, 10>> >>
    /\ Len(GRID) = 10
    /\ Len(GRID[10]) = 11

(***************************************************************************)
(* C12: HOUR_WORDS is a total mapping on the hours 1..12: every integer    *)
(* 1..12 is a key and the word key it maps to has an entry in WORDS; so    *)
(* every lookup made for a valid time finds a word of WORDS.               *)
(***************************************************************************)
C12_HourWordsTotal ==
    /\ \A h \in 1..12 : h \in DOMAIN HOUR_WORDS
    /\ \A h \in 1..12 : HOUR_WORDS[h] \in DOMAIN WORDS
    /\ Translated
           => \A k \in lookups : /\ k \in DOMAIN HOUR_WORDS
                                 /\ HOUR_WORDS[k] \in DOMAIN WORDS
                                 /\ HOUR_WORDS[k] = HourWordOf(words)

C12_Witness ==
    /\ Translated
    /\ arg_hour = 0
    /\ arg_minute = 3
    /\ lookups = {12}
    /\ HOUR_WORDS[12] = "ZWÖUFI"
    /\ HourWordOf(words) = "ZWÖUFI"

(***************************************************************************)
(* C13: for every word list whose keys are all in WORDS, the set of cells  *)
(* of get_lit_positions is the union over the listed words of              *)
(* {(row, c) : start_col <= c <= end_col}; every cell lies inside the      *)
(* 10x11 grid; a cell covered by a repeated word appears once in the set;  *)
(* the spans of distinct words are pairwise disjoint, so for every valid   *)
(* time the number of lit cells is the sum of the lengths of the words.    *)
(***************************************************************************)
\* the cells of the span of a word of WORDS
SpanCells(word) ==
    { <<WORDS[word][1], c>> : c \in WORDS[word][2]..WORDS[word][3] }

\* set(...) of a list of positions
CellSet(ps) == { ps[i] : i \in 1..Len(ps) }

RECURSIVE SumOfLengths(_)
SumOfLengths(ws) ==
    IF ws = << >> THEN 0 ELSE Len(Head(ws)) + SumOfLengths(Tail(ws))

\* the lists get_words_for_time returns for the valid times
ValidTimeLists == { get_words_for_time(h, m).words : h \in 0..23, m \in 0..59 }

C13_LitCells ==
    (/\ pc = "done"
     /\ op = "get_lit_positions"
     /\ \A i \in 1..Len(arg_words) : arg_words[i] \in DOMAIN WORDS)
        => /\ CellSet(positions)
                  = UNION { SpanCells(arg_words[i]) : i \in 1..Len(arg_words) }
           /\ CellSet(positions) \subseteq (0..9) \X (0..10)
           /\ (Len(arg_words) = 2 /\ arg_words[1] = arg_words[2])
                  => /\ CellSet(positions) = SpanCells(arg_words[1])
                     /\ Cardinality(CellSet(positions)) = Len(arg_words[1])
                     /\ Len(positions) = 2 * Len(arg_words[1])
           /\ \A v \in DOMAIN WORDS, w \in DOMAIN WORDS :
                  v # w => SpanCells(v) \cap SpanCells(w) = {}
           /\ arg_words \in ValidTimeLists
                  => Cardinality(CellSet(positions)) = SumOfLengths(arg_words)

C13_Witness ==
    /\ pc = "done"
    /\ op = "get_lit_positions"
    /\ arg_words = <<"ES", "ISCH", "FÜF", "VOR", "HAUBI", "ACHTI">>
    /\ Cardinality(CellSet(positions)) = 22
    /\ Len(positions) = 22

\* a repeated word lights its cells once
C13_WitnessRepeated ==
    /\ pc = "done"
    /\ op = "get_lit_positions"
    /\ arg_words = <<"EIS", "EIS">>
    /\ Len(positions) = 6
    /\ CellSet(positions) = { <<4, 0>>, <<4, 1>>, <<4, 2>> }

(***************************************************************************)
(* C17: with the default DisplayConfig, for every grid cell (row, col)     *)
(* with 0 <= row < 10 and 0 <= col < 11 the bounds get_char_pixel_bounds   *)
(* returns lie inside the panel, 0 <= x_start <= x_end <= 63 and           *)
(* 0 <= y_start <= y_end <= 63, and the blocks of distinct cells do not    *)
(* overlap.                                                                *)
(***************************************************************************)
\* two inclusive pixel rectangles share a pixel
Overlap(a, b) ==
    /\ a[1] <= b[3] /\ b[1] <= a[3]
    /\ a[2] <= b[4] /\ b[2] <= a[4]

C17_BlocksInsidePanel ==
    (pc = "done" /\ op = "get_char_pixel_bounds") =>
        /\ 0 <= bounds[1] /\ bounds[1] <= bounds[3] /\ bounds[3] <= 63
        /\ 0 <= bounds[2] /\ bounds[2] <= bounds[4] /\ bounds[4] <= 63
        /\ \A r \in 0..9, c \in 0..10 :
               <<r, c>> # <<arg_row, arg_col>>
                   => ~Overlap(bounds, get_char_pixel_bounds(r, c))

(***************************************************************************)
(* C18: the display is unambiguous: two valid times give the same lit-cell *)
(* set and the same dot count exactly when they agree in hour mod 12 and   *)
(* in the minute.                                                          *)
(***************************************************************************)
\* what is shown for a time: set(get_lit_positions(words)) and the dots
DisplayOf(h, m) ==
    <<CellSet(get_lit_positions(get_words_for_time(h, m).words)),
      get_minute_dots(m)>>

\* the displays of all valid times
DisplayTable == [h \in 0..23, m \in 0..59 |-> DisplayOf(h, m)]

C18_Unambiguous ==
    Translated =>
        LET shown == <<CellSet(get_lit_positions(words)),
                       get_minute_dots(arg_minute)>>
        IN  /\ outcome = "ok"
            /\ \A h \in 0..23, m \in 0..59 :
                   (DisplayTable[h, m] = shown)
                       <=> (h % 12 = arg_hour % 12 /\ m = arg_minute)

C18_Witness ==
    /\ Translated
    /\ arg_hour = 19
    /\ arg_minute = 47
    /\ DisplayOf(7, 47) = <<CellSet(get_lit_positions(words)), 2>>
    /\ DisplayOf(19, 48) # DisplayOf(19, 47)
    /\ DisplayOf(19, 42)[2] = 2
    /\ DisplayOf(19, 42)[1] # DisplayOf(19, 47)[1]

(***************************************************************************)
(* C15: shutdown clears the display: once SIGINT or SIGTERM is delivered   *)
(* at any point of the polling loop, also in the middle of a display       *)
(* update, running is false, no further iteration is started, the program  *)
(* exits, and at exit the last operation applied to the matrix is Clear.   *)
(***************************************************************************)
ShutdownInv ==
    /\ signals > 0 => ~running
    /\ signals > 0 => iter = sig_iter
    /\ (cpc = "exit" /\ has_matrix)
           => (matrix_ops # << >> /\ matrix_ops[Len(matrix_ops)] = "Clear")

C15_ShutdownClears ==
    /\ []ShutdownInv
    /\ (signals > 0) ~> (cpc = "exit")

C15_Witness ==
    /\ cpc = "exit"
    /\ has_matrix
    /\ signals = 1
    /\ sig_pc = "render"
    /\ iter = 1
    /\ ~running
    /\ matrix_ops[Len(matrix_ops)] = "Clear"

(***************************************************************************)
(* C16: the display is updated on the first iteration and on every         *)
(* iteration whose sampled minute differs from last_minute, and on no      *)
(* other; each update hands the rendering sink the lit cells and the dot   *)
(* count of the sampled (hour, minute), and then last_minute is the        *)
(* sampled minute, so after every completed iteration the displayed minute *)
(* is the most recently sampled minute.                                    *)
(***************************************************************************)
C16_UpdateOnMinuteChange ==
    /\ error = "none"
    /\ cpc \in {"compute", "render", "store"} => now[2] # last_minute
    /\ (iter = 1 /\ cpc = "sleep") => sink.shown
    /\ cpc = "sleep"
           => /\ last_minute = now[2]
              /\ sink.shown
              /\ sink.minute = now[2]
              /\ sink.cells = CellSet(get_lit_positions(
                                  get_words_for_time(now[1], now[2]).words))
              /\ sink.dots = get_minute_dots(now[2])

====
